---- MODULE Spec2Model ----
(***************************************************************************)
(* The Amount and Data editors of src/main.py over the SQLite file         *)
(* data.db.  One step of the model is one run of the Streamlit script      *)
(* (main): the selected table is fetched, the editor renders its form and  *)
(* handles the button that was clicked, and the table is written back.     *)
(*                                                                         *)
(* Numbers.  The form's floats are drawn from small sets of naturals.  An  *)
(* index (a float quotient) is a triple <<kind, n, d>>: the exact fraction *)
(* n/d in lowest terms, or the IEEE values inf and nan that a float        *)
(* division by 0.0 yields in pandas.  Rounding of the quotient is not      *)
(* modelled.                                                               *)
(*                                                                         *)
(* Dates.  Every Date the editors write comes from st.date_input, so it    *)
(* is a midnight timestamp; a Date is modelled by its day number.          *)
(*                                                                         *)
(* Storage.  A storage call either takes effect as a whole or raises       *)
(* sqlite3.Error and leaves the file as it was; which of the two happens   *)
(* is chosen by the environment at every call.                             *)
(*                                                                         *)
(* Tables.  Each editor reads and writes only its own table, so a          *)
(* behaviour follows the table selected in the sidebar when it starts.     *)
(***************************************************************************)
EXTENDS Integers, Sequences, FiniteSets, TLC

VARIABLES selected_table, stored, reset, df, pc, last

vars == <<selected_table, stored, reset, df, pc, last>>

\* ------------------------------------------------------------------ bounds
MaxDate == 2

Dates == 1..MaxDate

\* the (NAV, VNI) pairs typed into the Data form: each column takes a zero
\* and two different non-zero values
DataInputs == {<<0, 1>>, <<1, 0>>, <<1, 2>>, <<2, 1>>}

\* the (MH, TA, AT) triples typed into the Amount form
AmountInputs == {<<0, 0, 0>>, <<1, 0, 0>>, <<0, 1, 0>>, <<0, 0, 1>>}

\* ------------------------------------------------------------------ floats
RECURSIVE GCD(_, _)
GCD(a, b) == IF b = 0 THEN a ELSE GCD(b, a % b)

Num(n) == <<"num", n, 1>>

NaN == <<"nan", 0, 1>>

Inf == <<"inf", 0, 1>>

Frac(n, d) == <<"num", n \div GCD(n, d), d \div GCD(n, d)>>

\* value / first * 100 on floats: no exception, x/0.0 is inf and 0.0/0.0 is nan
Quotient(value, first) ==
    IF first = 0
    THEN (IF value = 0 THEN NaN ELSE Inf)
    ELSE Frac(value * 100, first)

\* ----------------------------------------------------------------- storage
\* execute_query: the stored rows, or None when sqlite3.Error is caught
execute_query(table, ok) == [isNone |-> ~ok, rows |-> IF ok THEN table ELSE <<>>]

\* fetch_from_sqlite: SELECT * FROM the table
fetch_from_sqlite(table, ok) == execute_query(table, ok)

\* save_to_sqlite: if_exists="replace" overwrites the whole table
save_to_sqlite(table, frame, ok) == IF ok THEN frame ELSE table

\* delete_entry: DELETE FROM table WHERE Date = ?
delete_entry(table, date, ok) ==
    IF ok THEN SelectSeq(table, LAMBDA r : r.Date # date) ELSE table

\* ------------------------------------------------------------ editor steps
\* df is None -> empty frame, else a copy
LoadFrame(fetched) == IF fetched.isNone THEN <<>> ELSE fetched.rows

\* mask = df['Date'].dt.date == selected_date.date()
Mask(frame, date) == {i \in DOMAIN frame : frame[i].Date = date}

\* existing_data is not None
Exists(frame, date) == Mask(frame, date) # {}

\* the mutant of Upsert that never replaces: every save appends
UpsertAppendOnly(frame, date, new_data) == Append(frame, new_data)

\* the mutant of Upsert that leaves a matching row as it was
UpsertKeepOld(frame, date, new_data) ==
    IF Exists(frame, date) THEN frame ELSE Append(frame, new_data)

\* df.loc[mask] = new_data, or pd.concat([df, new row])
Upsert(frame, date, new_data) ==
    IF Exists(frame, date)
    THEN [i \in DOMAIN frame |->
            IF i \in Mask(frame, date) THEN new_data ELSE frame[i]]
    ELSE Append(frame, new_data)

\* df = df[~mask]
DropMask(frame, date) == SelectSeq(frame, LAMBDA r : r.Date # date)

\* new_data of the Amount editor; total = mh_value + ta_value + at_value
AmountRow(date, mh, ta, at) ==
    [Date |-> date, MH |-> mh, TA |-> ta, AT |-> at, Total |-> mh + ta + at]

\* new_data of the Data editor
DataRow(date, nav, vni, nav_index, vni_index) ==
    [Date |-> date, NAV |-> nav, Vni |-> vni,
     NAV_index |-> nav_index, Vni_index |-> vni_index]

\* "if not df.empty and len(df) > 0" before the form's baseline lookup
FormGuard(frame) == frame # <<>>

\* the form's index: 100 on an empty table, 0 on a zero baseline
FormIndex(frame, value, first) ==
    IF FormGuard(frame)
    THEN (IF first # 0 THEN Quotient(value, first) ELSE Num(0))
    ELSE Num(100)

\* "if len(df) > 0" before the recomputation of a save
SaveRecalcGuard(frame) == Len(frame) > 0

\* the mutant of DeleteRecalcGuard that always recomputes
DeleteRecalcAlways(frame) == TRUE

\* "if not df.empty" before the recomputation of a delete
DeleteRecalcGuard(frame) == frame # <<>>

\* df['NAV_index'] = df['NAV'] / first_nav * 100, the same for Vni
Recalculate(frame) ==
    [i \in DOMAIN frame |->
        [frame[i] EXCEPT !.NAV_index = Quotient(frame[i].NAV, frame[1].NAV),
                         !.Vni_index = Quotient(frame[i].Vni, frame[1].Vni)]]

\* the mutant of DeleteClicked that skips "existing_data is not None"
DeleteClickedOnly(frame, date) == TRUE

\* "delete_clicked and existing_data is not None", the button being clicked
DeleteClicked(frame, date) == Exists(frame, date)

\* ------------------------------------------------------- the last script run
NoIndex == Num(0)

NoRow == [Date |-> 0]

Ran(op, date, new_data, fetched, frame, writes, failed, success, ni, vi, err) ==
    [op |-> op, date |-> date, new |-> new_data, fetched |-> fetched,
     loaded |-> frame, prev |-> stored, writes |-> writes, failed |-> failed,
     success |-> success, nav_index |-> ni, vni_index |-> vi,
     IndexError |-> err]

Init ==
    /\ selected_table \in {"Amount", "Data"}
    /\ stored = <<>>
    /\ reset = FALSE
    /\ df = <<>>
    /\ pc = "idle"
    /\ last = [op |-> "none", date |-> 0, new |-> NoRow, fetched |-> TRUE,
               loaded |-> <<>>, prev |-> <<>>, writes |-> 0, failed |-> FALSE,
               success |-> FALSE, nav_index |-> NoIndex, vni_index |-> NoIndex,
               IndexError |-> FALSE]

\* ------------------------------------------------------------ Amount editor
\* display_amount_editor with "Save Amount Data" clicked
AmountSave(date, mh, ta, at, fetchOk, saveOk) ==
    LET frame == LoadFrame(fetch_from_sqlite(stored, fetchOk))
        new_data == AmountRow(date, mh, ta, at)
        saved == Upsert(frame, date, new_data)
    IN  /\ selected_table = "Amount"
        /\ pc = "idle"
        /\ stored' = save_to_sqlite(stored, saved, saveOk)
        /\ reset' = saveOk
        /\ pc' = IF saveOk THEN "rerun" ELSE "idle"
        /\ df' = saved
        /\ last' = Ran("save", date, new_data, fetchOk, frame, 1, ~saveOk,
                       saveOk, NoIndex, NoIndex, FALSE)
        /\ UNCHANGED selected_table

\* display_amount_editor with "Delete Entry" clicked
AmountDelete(date, fetchOk, deleteOk, saveOk) ==
    LET frame == LoadFrame(fetch_from_sqlite(stored, fetchOk))
        kept == DropMask(frame, date)
    IN  /\ selected_table = "Amount"
        /\ pc = "idle"
        /\ IF ~DeleteClicked(frame, date)
           THEN /\ deleteOk /\ saveOk
                /\ UNCHANGED stored
                /\ reset' = FALSE
                /\ pc' = "idle"
                /\ df' = frame
                /\ last' = Ran("delete", date, NoRow, fetchOk, frame, 0, FALSE,
                               FALSE, NoIndex, NoIndex, FALSE)
           ELSE IF ~deleteOk
           THEN /\ saveOk
                /\ stored' = delete_entry(stored, date, FALSE)
                /\ reset' = FALSE
                /\ pc' = "idle"
                /\ df' = frame
                /\ last' = Ran("delete", date, NoRow, fetchOk, frame, 1, TRUE,
                               FALSE, NoIndex, NoIndex, FALSE)
           ELSE /\ stored' = save_to_sqlite(delete_entry(stored, date, TRUE),
                                            kept, saveOk)
                /\ reset' = TRUE
                /\ pc' = "rerun"
                /\ df' = kept
                /\ last' = Ran("delete", date, NoRow, fetchOk, frame, 2, ~saveOk,
                               TRUE, NoIndex, NoIndex, FALSE)
        /\ UNCHANGED selected_table

\* display_amount_editor with no button clicked (also the run after a rerun)
AmountRender(fetchOk) ==
    LET frame == LoadFrame(fetch_from_sqlite(stored, fetchOk))
    IN  /\ selected_table = "Amount"
        /\ UNCHANGED stored
        /\ reset' = FALSE
        /\ pc' = "idle"
        /\ df' = frame
        /\ last' = Ran("render", 0, NoRow, fetchOk, frame, 0, FALSE, FALSE,
                       NoIndex, NoIndex, FALSE)
        /\ UNCHANGED selected_table

\* -------------------------------------------------------------- Data editor
\* df.iloc[0] on a frame without rows raises IndexError and ends the run
LookupFails(guard, frame) == guard /\ frame = <<>>

\* first_nav = df.iloc[0]['NAV'] where the lookup is made
FirstNAV(frame) == IF frame = <<>> THEN 0 ELSE frame[1].NAV

\* first_vni = df.iloc[0]['Vni'] where the lookup is made
FirstVni(frame) == IF frame = <<>> THEN 0 ELSE frame[1].Vni

\* display_data_editor with "Save Data" clicked
DataSave(date, nav, vni, fetchOk, saveOk) ==
    LET frame == LoadFrame(fetch_from_sqlite(stored, fetchOk))
        nav_index == FormIndex(frame, nav, FirstNAV(frame))
        vni_index == FormIndex(frame, vni, FirstVni(frame))
        new_data == DataRow(date, nav, vni, nav_index, vni_index)
        upserted == Upsert(frame, date, new_data)
        saved == IF SaveRecalcGuard(upserted) THEN Recalculate(upserted)
                 ELSE upserted
        raised == \/ LookupFails(FormGuard(frame), frame)
                  \/ LookupFails(SaveRecalcGuard(upserted), upserted)
    IN  /\ selected_table = "Data"
        /\ pc = "idle"
        /\ IF raised
           THEN /\ saveOk
                /\ UNCHANGED stored
                /\ reset' = FALSE
                /\ pc' = "idle"
                /\ df' = frame
                /\ last' = Ran("save", date, new_data, fetchOk, frame, 0, FALSE,
                               FALSE, nav_index, vni_index, TRUE)
           ELSE /\ stored' = save_to_sqlite(stored, saved, saveOk)
                /\ reset' = saveOk
                /\ pc' = IF saveOk THEN "rerun" ELSE "idle"
                /\ df' = saved
                /\ last' = Ran("save", date, new_data, fetchOk, frame, 1,
                               ~saveOk, saveOk, nav_index, vni_index, FALSE)
        /\ UNCHANGED selected_table

\* display_data_editor with "Delete Entry" clicked; the form shows the row's
\* own values, or zeros
DataDelete(date, fetchOk, deleteOk, saveOk) ==
    LET frame == LoadFrame(fetch_from_sqlite(stored, fetchOk))
        nav_index == FormIndex(frame, 0, FirstNAV(frame))
        vni_index == FormIndex(frame, 0, FirstVni(frame))
        kept == DropMask(frame, date)
        saved == IF DeleteRecalcGuard(kept) THEN Recalculate(kept) ELSE kept
    IN  /\ selected_table = "Data"
        /\ pc = "idle"
        /\ IF LookupFails(FormGuard(frame), frame)
           THEN /\ deleteOk /\ saveOk
                /\ UNCHANGED stored
                /\ reset' = FALSE
                /\ pc' = "idle"
                /\ df' = frame
                /\ last' = Ran("delete", date, NoRow, fetchOk, frame, 0, FALSE,
                               FALSE, nav_index, vni_index, TRUE)
           ELSE IF ~DeleteClicked(frame, date)
           THEN /\ deleteOk /\ saveOk
                /\ UNCHANGED stored
                /\ reset' = FALSE
                /\ pc' = "idle"
                /\ df' = frame
                /\ last' = Ran("delete", date, NoRow, fetchOk, frame, 0, FALSE,
                               FALSE, nav_index, vni_index, FALSE)
           ELSE IF ~deleteOk
           THEN /\ saveOk
                /\ stored' = delete_entry(stored, date, FALSE)
                /\ reset' = FALSE
                /\ pc' = "idle"
                /\ df' = frame
                /\ last' = Ran("delete", date, NoRow, fetchOk, frame, 1, TRUE,
                               FALSE, nav_index, vni_index, FALSE)
           ELSE IF LookupFails(DeleteRecalcGuard(kept), kept)
           THEN /\ saveOk
                /\ stored' = delete_entry(stored, date, TRUE)
                /\ reset' = FALSE
                /\ pc' = "idle"
                /\ df' = kept
                /\ last' = Ran("delete", date, NoRow, fetchOk, frame, 1, FALSE,
                               TRUE, nav_index, vni_index, TRUE)
           ELSE /\ stored' = save_to_sqlite(delete_entry(stored, date, TRUE),
                                            saved, saveOk)
                /\ reset' = TRUE
                /\ pc' = "rerun"
                /\ df' = saved
                /\ last' = Ran("delete", date, NoRow, fetchOk, frame, 2, ~saveOk,
                               TRUE, nav_index, vni_index, FALSE)
        /\ UNCHANGED selected_table

\* display_data_editor with no button clicked (also the run after a rerun)
DataRender(fetchOk) ==
    LET frame == LoadFrame(fetch_from_sqlite(stored, fetchOk))
        nav_index == FormIndex(frame, 0, FirstNAV(frame))
        vni_index == FormIndex(frame, 0, FirstVni(frame))
    IN  /\ selected_table = "Data"
        /\ UNCHANGED stored
        /\ reset' = FALSE
        /\ pc' = "idle"
        /\ df' = frame
        /\ last' = Ran("render", 0, NoRow, fetchOk, frame, 0, FALSE, FALSE,
                       nav_index, vni_index,
                       LookupFails(FormGuard(frame), frame))
        /\ UNCHANGED selected_table

\* ------------------------------------------------------------ specifications
NextAmount ==
    \/ \E date \in Dates, input \in AmountInputs,
          fetchOk \in BOOLEAN, saveOk \in BOOLEAN :
          AmountSave(date, input[1], input[2], input[3], fetchOk, saveOk)
    \/ \E date \in Dates, fetchOk \in BOOLEAN, deleteOk \in BOOLEAN,
          saveOk \in BOOLEAN : AmountDelete(date, fetchOk, deleteOk, saveOk)
    \/ \E fetchOk \in BOOLEAN : AmountRender(fetchOk)

NextData ==
    \/ \E date \in Dates, input \in DataInputs,
          fetchOk \in BOOLEAN, saveOk \in BOOLEAN :
          DataSave(date, input[1], input[2], fetchOk, saveOk)
    \/ \E date \in Dates, fetchOk \in BOOLEAN, deleteOk \in BOOLEAN,
          saveOk \in BOOLEAN : DataDelete(date, fetchOk, deleteOk, saveOk)
    \/ \E fetchOk \in BOOLEAN : DataRender(fetchOk)

Next == NextAmount \/ NextData

Spec == Init /\ [][Next]_vars

\* ---------------------------------------------- a database file found on disk
\* rows of an Amount table that some other writer left in data.db: the Total
\* column holds whatever was stored
FoundAmountRows ==
    {[Date |-> d, MH |-> input[1], TA |-> input[2], AT |-> input[3],
      Total |-> t] : d \in Dates, input \in AmountInputs, t \in {0, 1}}

\* main() run on a data.db whose Amount table already holds rows, at most one
\* per date
InitLoaded ==
    /\ selected_table = "Amount"
    /\ stored \in {<<>>} \cup {<<r>> : r \in FoundAmountRows}
                  \cup {<<r[1], r[2]>> : r \in
                           {q \in FoundAmountRows \X FoundAmountRows :
                               q[1].Date # q[2].Date}}
    /\ reset = FALSE
    /\ df = <<>>
    /\ pc = "idle"
    /\ last = [op |-> "none", date |-> 0, new |-> NoRow, fetched |-> TRUE,
               loaded |-> stored, prev |-> stored, writes |-> 0,
               failed |-> FALSE, success |-> FALSE, nav_index |-> NoIndex,
               vni_index |-> NoIndex, IndexError |-> FALSE]

SpecLoaded == InitLoaded /\ [][NextAmount]_vars

\* ------------------------------------------------------------------- claims
\* the index the specification defines: 0 on a zero baseline
SpecIndex(value, baseline) ==
    IF baseline = 0 THEN Num(0) ELSE Frac(value * 100, baseline)

Saved == last.op = "save" /\ last.success

Deleted == last.op = "delete" /\ last.success

\* C1: after a successful save or delete in the Data table, every row of the
\* stored table has NAV_index = 0 if the first row's NAV is 0, else
\* NAV / (first row's NAV) * 100, and the same for Vni_index with Vni.
C1_IndicesFollowBaseline ==
    (selected_table = "Data" /\ (Saved \/ Deleted)) =>
        \A i \in DOMAIN stored :
            /\ stored[i].NAV_index = SpecIndex(stored[i].NAV, stored[1].NAV)
            /\ stored[i].Vni_index = SpecIndex(stored[i].Vni, stored[1].Vni)

\* C2: the stored table never holds two rows with the same calendar date.
C2_OneRowPerDate ==
    \A i, j \in DOMAIN stored : stored[i].Date = stored[j].Date => i = j

\* a save on a date already present, in a table of two or more rows
C2_Witness ==
    /\ Saved
    /\ Exists(last.prev, last.date)
    /\ Len(stored) >= 2

\* C3: after a save in the Amount table, every row of the stored table has
\* Total = MH + TA + AT, whatever Total values the loaded table held.
C3_TotalIsSum ==
    (selected_table = "Amount" /\ Saved) =>
        \A i \in DOMAIN stored :
            stored[i].Total = stored[i].MH + stored[i].TA + stored[i].AT

\* the input fields of a stored row are the submitted ones
SameInputs(row, new_data) ==
    IF selected_table = "Amount"
    THEN row.MH = new_data.MH /\ row.TA = new_data.TA /\ row.AT = new_data.AT
    ELSE row.NAV = new_data.NAV /\ row.Vni = new_data.Vni

\* C4: a successful save for date d on the table the editor loaded adds one
\* row when d was absent and none when d was present; the result holds exactly
\* one row for d, with the submitted input fields; on an empty table the
\* result is that row alone.
C4_SaveUpserts ==
    Saved =>
        /\ Len(stored) = Len(last.loaded)
                         + (IF Exists(last.loaded, last.date) THEN 0 ELSE 1)
        /\ Cardinality(Mask(stored, last.date)) = 1
        /\ \A i \in Mask(stored, last.date) : SameInputs(stored[i], last.new)
        /\ \A i \in DOMAIN last.loaded :
               last.loaded[i].Date # last.date =>
                   /\ i \in DOMAIN stored
                   /\ stored[i].Date = last.loaded[i].Date
        /\ (last.loaded = <<>> => Len(stored) = 1)

\* a save that replaced the row of a date already present by other values
C4_Witness ==
    /\ Saved
    /\ Exists(last.loaded, last.date)
    /\ Len(stored) = 2
    /\ \E i \in Mask(last.loaded, last.date) :
           ~SameInputs(last.loaded[i], last.new)

\* C5: a delete click for a date without a row changes neither the stored
\* table nor the frame the editor returns, issues no storage write, reports no
\* success and does not set the reset flag.
C5_DeleteAbsentIsNoOp ==
    (last.op = "delete" /\ ~Exists(last.loaded, last.date)) =>
        /\ stored = last.prev
        /\ df = last.loaded
        /\ last.writes = 0
        /\ ~last.success
        /\ reset = FALSE
        /\ pc = "idle"

\* a delete click for an absent date on a loaded table that holds rows
C5_Witness ==
    /\ last.op = "delete"
    /\ last.fetched
    /\ last.prev # <<>>
    /\ ~Exists(last.loaded, last.date)

\* C6: deleting the only row leaves the stored table empty, and no run (the
\* delete, a later render, a later save) looks up a baseline in a frame
\* without rows.
C6_DeleteOnlyRowSafe ==
    /\ ~last.IndexError
    /\ (Deleted /\ Len(last.prev) = 1) => stored = <<>>

\* the Data table's only row has just been deleted
C6_Witness ==
    /\ selected_table = "Data"
    /\ Deleted
    /\ Len(last.prev) = 1
    /\ stored = <<>>
    /\ last.writes = 2

\* C7: when a storage write of a save or a delete fails, the stored table is
\* what it was before the run, no success is reported and the reset flag is
\* not set.
C7_FailedWriteChangesNothing ==
    last.failed =>
        /\ stored = last.prev
        /\ ~last.success
        /\ reset = FALSE

\* C8: a run whose load failed leaves the stored table as it was.
C8_FailedLoadChangesNothing ==
    ~last.fetched => stored = last.prev

\* the place of a date in a table (0 when absent)
Place(table, date) ==
    IF Exists(table, date) THEN CHOOSE i \in Mask(table, date) : TRUE ELSE 0

\* rows that survive a run keep their relative order
OrderKept ==
    \A i, j \in DOMAIN last.prev :
        (/\ i < j
         /\ Exists(stored, last.prev[i].Date)
         /\ Exists(stored, last.prev[j].Date)) =>
            Place(stored, last.prev[i].Date) < Place(stored, last.prev[j].Date)

\* the first row is another date than before only after a delete of the first
\* row, or when the stored table was empty
BaselineKept ==
    (/\ last.prev # <<>>
     /\ stored # <<>>
     /\ stored[1].Date # last.prev[1].Date) =>
        (last.op = "delete" /\ last.date = last.prev[1].Date)

\* C9: a run keeps the relative order of the other rows of the stored table,
\* and the first row changes identity only when the first row is deleted or
\* the table was empty before the save.
C9_OrderAndBaselineKept ==
    selected_table = "Data" => (OrderKept /\ BaselineKept)

\* C10: after a successful save in the Data editor, the NAV_index and
\* Vni_index stored for the saved date are the indices the form showed.
C10_FormIndexIsStored ==
    (selected_table = "Data" /\ Saved) =>
        \A i \in Mask(stored, last.date) :
            /\ stored[i].NAV_index = last.nav_index
            /\ stored[i].Vni_index = last.vni_index

====
